---- MODULE Spec2Model ----
(***************************************************************************)
(* Eclipso privacy browser: the navigation history state machine, the      *)
(* engine callbacks and the session-scoped one-time guards.                *)
(*                                                                         *)
(* Two variants of PrivacyBrowser exist in the repository:                 *)
(*   browser.py         the clean browser (history, engine callbacks);     *)
(*                      its handlers carry the source's names, and the     *)
(*                      specification is Spec.                             *)
(*   browser_broken.py  the privacy browser (the same history machine plus *)
(*                      fingerprint and compatibility guards); its         *)
(*                      handlers carry the suffix _broken, and the         *)
(*                      specification is SpecBroken.                       *)
(* Strings are TLA+ strings; Python's str operations are computed on them  *)
(* with Len, SubSeq and \o.                                                *)
(***************************************************************************)
EXTENDS Integers, Sequences, FiniteSets, TLC

\* ------------------------------------------------------------------ bounds
\* The longest history the model lets a navigation build.
MaxLen == 3
\* The most automatic reloads the model lets one failing page cause.
MaxReloads == 2
\* The number of states of the process-wide random generator.
RngMod == 3

\* ------------------------------------------------------- Python str helpers
\* str.startswith(prefix)
startswith(s, p) == Len(s) >= Len(p) /\ SubSeq(s, 1, Len(p)) = p

\* str.startswith((p1, p2)): true when any prefix of the tuple matches
startswith_any(s, ps) == \E k \in 1..Len(ps) : startswith(s, ps[k])

\* The characters str.strip() removes.
Whitespace == {" ", "\t", "\n", "\r", "\f"}

RECURSIVE lstrip(_)
lstrip(s) ==
    IF Len(s) > 0 /\ SubSeq(s, 1, 1) \in Whitespace
    THEN lstrip(SubSeq(s, 2, Len(s)))
    ELSE s

RECURSIVE rstrip(_)
rstrip(s) ==
    IF Len(s) > 0 /\ SubSeq(s, Len(s), Len(s)) \in Whitespace
    THEN rstrip(SubSeq(s, 1, Len(s) - 1))
    ELSE s

\* str.strip()
strip(s) == rstrip(lstrip(s))

\* `sub in s` for strings
contains(s, sub) ==
    \E k \in 1..(Len(s) - Len(sub) + 1) : SubSeq(s, k, k + Len(sub) - 1) = sub

\* str.lower() on one character (ASCII letters that occur in the inputs)
lower_char(c) ==
    CASE c = "A" -> "a" [] c = "B" -> "b" [] c = "C" -> "c" [] c = "D" -> "d"
      [] c = "E" -> "e" [] c = "F" -> "f" [] c = "G" -> "g" [] c = "H" -> "h"
      [] c = "I" -> "i" [] c = "J" -> "j" [] c = "K" -> "k" [] c = "L" -> "l"
      [] c = "M" -> "m" [] c = "N" -> "n" [] c = "O" -> "o" [] c = "P" -> "p"
      [] c = "Q" -> "q" [] c = "R" -> "r" [] c = "S" -> "s" [] c = "T" -> "t"
      [] c = "U" -> "u" [] c = "V" -> "v" [] c = "W" -> "w" [] c = "X" -> "x"
      [] c = "Y" -> "y" [] c = "Z" -> "z" [] OTHER -> c

RECURSIVE lower(_)
lower(s) ==
    IF Len(s) = 0 THEN s
    ELSE lower_char(SubSeq(s, 1, 1)) \o lower(SubSeq(s, 2, Len(s)))

\* ------------------------------------------------------------------- inputs
\* Texts a user types into the address bar before pressing Enter or Go.
Texts == {"", "a.com", " http://b.io "}

\* Texts typed into the address bar of the browser_broken.py window.
Texts_broken == {"a.com", " http://b.io "}

\* URLs the engine reports on its own account (a redirect, a clicked link).
EngineUrls == {"https://www.Google.com/search"}

\* ---------------------------------------------------------------- variables
VARIABLES
    history,              \* self.history: the visited URLs
    current_index,        \* self.current_index: position in history, -1 when empty
    current_url,          \* self.current_url: the URL the engine last reported
    address_bar,          \* self.address_bar's text
    status_bar,           \* self.status_bar's message
    back_btn,             \* self.back_btn.isEnabled()
    forward_btn,          \* self.forward_btn.isEnabled()
    web_view_url,         \* the argument of the last web_view.setUrl(QUrl(.))
    loading,              \* the engine has a load outstanding (no loadFinished yet)
    reload_calls,         \* web_view.reload() calls on_load_finished issued for this page
    fingerprint_applied,  \* hasattr(self, 'fingerprint_applied')
    current_fingerprint,  \* <<>> when the attribute is absent, <<profile>> otherwise
    google_fixes_applied, \* hasattr(self, 'google_fixes_applied')
    google_js_applied,    \* hasattr(self, 'google_js_applied')
    http_user_agent,      \* the profile's HTTP user agent (setHttpUserAgent)
    rng,                  \* state of the process-wide generator of module random
    op,                   \* observation: the handler that ran last
    prev_index,           \* observation: current_index before that handler
    prev_len,             \* observation: len(history) before that handler
    prev_loading,         \* observation: a load was outstanding when that handler began
    nav_run,              \* observation: n while only load_url ran n times, else -1
    rt,                   \* observation: a go_back(); go_forward() round trip in progress
    generated,            \* observation: generate_random_fingerprint() calls this session
    patch_runs,           \* observation: times the compatibility routine took effect
    fingerprint_differs,  \* observation: this session's profile differs from the last one's
    cookie_policy,        \* cookie_manager.cookie_policy
    request,              \* observation: the request interceptRequest handled last
    prev_request,         \* observation: the request it handled before that one
    headers,              \* observation: the dict the last header builder returned
    cookie_call           \* observation: the last should_accept_cookie call and its result

hist_vars == <<history, current_index, back_btn, forward_btn>>
ui_vars == <<current_url, address_bar, status_bar>>
engine_vars == <<web_view_url, loading, reload_calls>>
session_vars == <<fingerprint_applied, current_fingerprint, google_fixes_applied,
                  google_js_applied, http_user_agent, rng>>
obs_hist_vars == <<prev_index, prev_len, prev_loading, nav_run, rt>>
obs_session_vars == <<generated, patch_runs, fingerprint_differs>>
privacy_vars == <<cookie_policy, request, prev_request, headers, cookie_call>>
vars == <<hist_vars, ui_vars, engine_vars, session_vars, op, obs_hist_vars,
          obs_session_vars, privacy_vars>>

\* No header has been set.
NoHeaders == [name \in {} |-> ""]

\* No request has been intercepted.
NoRequest == [url |-> "", headers |-> NoHeaders, google_essential |-> FALSE,
              blocked |-> FALSE, seen |-> FALSE]

\* No cookie has been offered.
NoCookieCall == [cookie_domain |-> "", domain |-> "", accepted |-> FALSE,
                 made |-> FALSE]

\* The privacy helpers as constructed, before any request, builder call or cookie.
PrivacyConstructed ==
    /\ cookie_policy = "block_third_party"
    /\ request = NoRequest
    /\ prev_request = NoRequest
    /\ headers = NoHeaders
    /\ cookie_call = NoCookieCall

\* No round trip under observation.
NoRoundTrip == [phase |-> "none", history |-> <<>>, current_index |-> -1]

\* ------------------------------------------------- browser.py: the handlers
\* A plausible slip: the back button's test is >= 0 instead of > 0.
update_navigation_buttons_ge(h, i) ==
    [back_btn |-> (i >= 0), forward_btn |-> (i < Len(h) - 1)]

\* update_navigation_buttons: the enablement of the two buttons
update_navigation_buttons(h, i) ==
    [back_btn |-> (i > 0), forward_btn |-> (i < Len(h) - 1)]

\* A plausible slip: the index is set to len(history), one past the last entry.
add_to_history_index_off(h, i, url) ==
    LET kept == IF i < Len(h) - 1 THEN SubSeq(h, 1, i + 1) ELSE h
        h2 == Append(kept, url)
    IN  [history |-> h2, current_index |-> Len(h2)]

\* A plausible slip: the forward entries are kept, the URL is only appended.
add_to_history_no_truncate(h, i, url) ==
    LET h2 == Append(h, url)
    IN  [history |-> h2, current_index |-> Len(h2) - 1]

\* add_to_history: truncate the forward entries only when there are any
add_to_history(h, i, url) ==
    LET kept == IF i < Len(h) - 1 THEN SubSeq(h, 1, i + 1) ELSE h
        h2 == Append(kept, url)
    IN  [history |-> h2, current_index |-> Len(h2) - 1]

\* The URL load_url hands on for a text of the address bar.
load_url_target(text) ==
    LET url == strip(text)
    IN  IF ~startswith_any(url, <<"http://", "https://">>)
        THEN "https://" \o url
        ELSE url

\* A plausible slip: a navigation is refused while a load is outstanding.
load_url_waits(text) ==
    LET url == load_url_target(text)
        r == add_to_history(history, current_index, url)
        b == update_navigation_buttons(r.history, r.current_index)
    IN  /\ ~loading
        /\ current_index + 1 < MaxLen
        /\ address_bar' = text
        /\ web_view_url' = url
        /\ loading' = TRUE
        /\ reload_calls' = 0
        /\ history' = r.history
        /\ current_index' = r.current_index
        /\ back_btn' = b.back_btn
        /\ forward_btn' = b.forward_btn
        /\ op' = "load_url"
        /\ UNCHANGED privacy_vars
        /\ prev_index' = current_index
        /\ prev_len' = Len(history)
        /\ prev_loading' = loading
        /\ nav_run' = IF nav_run >= 0 THEN nav_run + 1 ELSE -1
        /\ rt' = NoRoundTrip
        /\ UNCHANGED <<current_url, status_bar, session_vars, obs_session_vars>>

\* load_url: the user has typed `text` and pressed Enter or Go
load_url(text) ==
    LET url == load_url_target(text)
        r == add_to_history(history, current_index, url)
        b == update_navigation_buttons(r.history, r.current_index)
    IN  /\ current_index + 1 < MaxLen
        /\ address_bar' = text
        /\ web_view_url' = url
        /\ loading' = TRUE
        /\ reload_calls' = 0
        /\ history' = r.history
        /\ current_index' = r.current_index
        /\ back_btn' = b.back_btn
        /\ forward_btn' = b.forward_btn
        /\ op' = "load_url"
        /\ UNCHANGED privacy_vars
        /\ prev_index' = current_index
        /\ prev_len' = Len(history)
        /\ prev_loading' = loading
        /\ nav_run' = IF nav_run >= 0 THEN nav_run + 1 ELSE -1
        /\ rt' = NoRoundTrip
        /\ UNCHANGED <<current_url, status_bar, session_vars, obs_session_vars>>

\* A plausible slip: a page the engine reports is recorded in the history.
on_url_changed_recording(url) ==
    LET r == add_to_history(history, current_index, url)
        b == update_navigation_buttons(r.history, r.current_index)
    IN  /\ current_index + 1 < MaxLen
        /\ address_bar' = url
        /\ current_url' = url
        /\ status_bar' = "Loaded: " \o url
        /\ history' = r.history
        /\ current_index' = r.current_index
        /\ back_btn' = b.back_btn
        /\ forward_btn' = b.forward_btn
        /\ op' = "on_url_changed"
        /\ UNCHANGED privacy_vars
        /\ UNCHANGED <<engine_vars, session_vars, obs_hist_vars, obs_session_vars>>

\* on_url_changed: the engine reports the URL it now shows
on_url_changed(url) ==
    /\ address_bar' = url
    /\ current_url' = url
    /\ status_bar' = "Loaded: " \o url
    /\ op' = "on_url_changed"
    /\ UNCHANGED privacy_vars
    /\ UNCHANGED <<hist_vars, engine_vars, session_vars, obs_hist_vars,
                   obs_session_vars>>

\* on_load_finished: the engine reports the end of the outstanding load
on_load_finished(success) ==
    /\ loading
    /\ IF success
       THEN /\ status_bar' = "Page loaded successfully"
            /\ loading' = FALSE
            /\ reload_calls' = 0
       ELSE /\ reload_calls < MaxReloads
            /\ status_bar' = "Failed to load page"
            /\ loading' = TRUE
            /\ reload_calls' = reload_calls + 1
    /\ op' = IF success THEN "on_load_finished(True)" ELSE "on_load_finished(False)"
    /\ UNCHANGED privacy_vars
    /\ UNCHANGED <<hist_vars, current_url, address_bar, web_view_url, session_vars,
                   obs_hist_vars, obs_session_vars>>

\* A plausible slip: at the oldest entry the back button reloads the page.
go_back_reloads_at_boundary ==
    /\ IF current_index > 0
       THEN LET b == update_navigation_buttons(history, current_index - 1)
            IN  /\ current_index' = current_index - 1
                /\ web_view_url' = history[current_index' + 1]
                /\ loading' = TRUE
                /\ reload_calls' = 0
                /\ back_btn' = b.back_btn
                /\ forward_btn' = b.forward_btn
       ELSE /\ loading' = TRUE
            /\ UNCHANGED <<current_index, web_view_url, reload_calls,
                           back_btn, forward_btn>>
    /\ rt' = IF 0 < current_index /\ current_index < Len(history) - 1
             THEN [phase |-> "back", history |-> history,
                   current_index |-> current_index]
             ELSE NoRoundTrip
    /\ op' = "go_back"
    /\ UNCHANGED privacy_vars
    /\ prev_index' = current_index
    /\ prev_len' = Len(history)
    /\ prev_loading' = loading
    /\ nav_run' = -1
    /\ UNCHANGED <<history, ui_vars, session_vars, obs_session_vars>>

\* go_back: the back button, or a swipe to the right
go_back ==
    /\ IF current_index > 0
       THEN LET b == update_navigation_buttons(history, current_index - 1)
            IN  /\ current_index' = current_index - 1
                /\ web_view_url' = history[current_index' + 1]
                /\ loading' = TRUE
                /\ reload_calls' = 0
                /\ back_btn' = b.back_btn
                /\ forward_btn' = b.forward_btn
       ELSE UNCHANGED <<current_index, web_view_url, loading, reload_calls,
                        back_btn, forward_btn>>
    /\ rt' = IF 0 < current_index /\ current_index < Len(history) - 1
             THEN [phase |-> "back", history |-> history,
                   current_index |-> current_index]
             ELSE NoRoundTrip
    /\ op' = "go_back"
    /\ UNCHANGED privacy_vars
    /\ prev_index' = current_index
    /\ prev_len' = Len(history)
    /\ prev_loading' = loading
    /\ nav_run' = -1
    /\ UNCHANGED <<history, ui_vars, session_vars, obs_session_vars>>

\* A plausible slip: forward jumps to the newest entry instead of the next one.
go_forward_to_last ==
    /\ IF current_index < Len(history) - 1
       THEN LET b == update_navigation_buttons(history, Len(history) - 1)
            IN  /\ current_index' = Len(history) - 1
                /\ web_view_url' = history[current_index' + 1]
                /\ loading' = TRUE
                /\ reload_calls' = 0
                /\ back_btn' = b.back_btn
                /\ forward_btn' = b.forward_btn
       ELSE UNCHANGED <<current_index, web_view_url, loading, reload_calls,
                        back_btn, forward_btn>>
    /\ rt' = IF rt.phase = "back"
             THEN [rt EXCEPT !.phase = "done"]
             ELSE NoRoundTrip
    /\ op' = "go_forward"
    /\ UNCHANGED privacy_vars
    /\ prev_index' = current_index
    /\ prev_len' = Len(history)
    /\ prev_loading' = loading
    /\ nav_run' = -1
    /\ UNCHANGED <<history, ui_vars, session_vars, obs_session_vars>>

\* go_forward: the forward button, or a swipe to the left
go_forward ==
    /\ IF current_index < Len(history) - 1
       THEN LET b == update_navigation_buttons(history, current_index + 1)
            IN  /\ current_index' = current_index + 1
                /\ web_view_url' = history[current_index' + 1]
                /\ loading' = TRUE
                /\ reload_calls' = 0
                /\ back_btn' = b.back_btn
                /\ forward_btn' = b.forward_btn
       ELSE UNCHANGED <<current_index, web_view_url, loading, reload_calls,
                        back_btn, forward_btn>>
    /\ rt' = IF rt.phase = "back"
             THEN [rt EXCEPT !.phase = "done"]
             ELSE NoRoundTrip
    /\ op' = "go_forward"
    /\ UNCHANGED privacy_vars
    /\ prev_index' = current_index
    /\ prev_len' = Len(history)
    /\ prev_loading' = loading
    /\ nav_run' = -1
    /\ UNCHANGED <<history, ui_vars, session_vars, obs_session_vars>>

\* refresh_page: the refresh button
refresh_page ==
    /\ IF current_url # ""
       THEN loading' = TRUE
       ELSE UNCHANGED loading
    /\ op' = "refresh_page"
    /\ UNCHANGED privacy_vars
    /\ UNCHANGED <<hist_vars, ui_vars, web_view_url, reload_calls, session_vars,
                   obs_hist_vars, obs_session_vars>>

\* ------------------------------------- fingerprint_protector.py: the pools
user_agents ==
    << "Mozilla/5.0 (Macintosh; Intel Mac OS X 10_15_7) AppleWebKit/537.36",
       "Mozilla/5.0 (Windows NT 10.0; Win64; x64) AppleWebKit/537.36",
       "Mozilla/5.0 (X11; Linux x86_64) AppleWebKit/537.36",
       "Mozilla/5.0 (iPhone; CPU iPhone OS 14_0 like Mac OS X) AppleWebKit/605.1.15" >>

screen_resolution ==
    << "1920x1080", "1366x768", "1280x720", "1024x768", "800x600", "640x480",
       "320x240" >>

timezone ==
    << "America/New_York", "America/Los_Angeles", "America/Chicago",
       "America/Denver", "America/Phoenix", "America/New_York",
       "America/Los_Angeles", "America/Chicago", "America/Denver",
       "America/Phoenix", "America/New_York", "America/Los_Angeles" >>

language == << "en-US", "en-GB", "en-CA", "en-AU", "en-NZ", "en-ZA" >>

plugins == << "Flash", "Java", "Silverlight", "QuickTime", "RealPlayer" >>

\* random.choice(pool) with the generator in state x
random_choice(pool, x) == pool[(x % Len(pool)) + 1]

\* The generator's state after k draws from state x. Module random's generator
\* is a deterministic function of its state; a counter modulo RngMod stands for it.
rng_after(x, k) == (x + k) % RngMod

\* A plausible slip: one draw is made and used for every pool.
generate_random_fingerprint_single_draw(x) ==
    LET y == x
    IN  [ fingerprint |->
            [ user_agent |-> random_choice(user_agents, rng_after(y, 0)),
              screen_resolution |-> random_choice(screen_resolution, rng_after(y, 0)),
              timezone |-> random_choice(timezone, rng_after(y, 0)),
              language |-> random_choice(language, rng_after(y, 0)),
              plugins |-> random_choice(plugins, rng_after(y, 0)),
              platform |-> random_choice(<<"MacIntel", "Win32", "Linux x86_64",
                                           "iPhone", "iPad">>, rng_after(y, 0)),
              color_depth |-> random_choice(<<"8", "16", "24", "32">>, rng_after(y, 0)),
              pixel_ratio |-> random_choice(<<"1", "2", "1.5">>, rng_after(y, 0)),
              webgl_version |-> random_choice(<<"1", "2", "3">>, rng_after(y, 0)),
              webgl_extensions |-> random_choice(<<"WEBGL_depth_texture",
                                                   "WEBGL_draw_buffers",
                                                   "WEBGL_lose_context">>,
                                                 rng_after(y, 0)),
              webgl_shading_language_version |->
                  random_choice(<<"1.0", "1.1", "1.2", "1.3", "1.4", "1.5">>,
                                rng_after(y, 0)),
              webgl_vendor |-> random_choice(<<"Google", "Mozilla", "Apple",
                                               "Microsoft">>, rng_after(y, 0)),
              webgl_renderer |-> random_choice(<<"Intel", "NVIDIA", "AMD", "Apple">>,
                                               rng_after(y, 0)) ],
          rng |-> rng_after(y, 1) ]

\* generate_random_fingerprint: fifteen draws in the order of the dict literal;
\* the keys webgl_vendor and webgl_renderer occur twice and the later draw wins.
generate_random_fingerprint(x) ==
    [ fingerprint |->
        [ user_agent |-> random_choice(user_agents, rng_after(x, 0)),
          screen_resolution |-> random_choice(screen_resolution, rng_after(x, 1)),
          timezone |-> random_choice(timezone, rng_after(x, 2)),
          language |-> random_choice(language, rng_after(x, 3)),
          plugins |-> random_choice(plugins, rng_after(x, 4)),
          platform |-> random_choice(<<"MacIntel", "Win32", "Linux x86_64", "iPhone",
                                       "iPad">>, rng_after(x, 5)),
          color_depth |-> random_choice(<<"8", "16", "24", "32">>, rng_after(x, 6)),
          pixel_ratio |-> random_choice(<<"1", "2", "1.5">>, rng_after(x, 7)),
          webgl_version |-> random_choice(<<"1", "2", "3">>, rng_after(x, 10)),
          webgl_extensions |-> random_choice(<<"WEBGL_depth_texture",
                                               "WEBGL_draw_buffers",
                                               "WEBGL_lose_context">>, rng_after(x, 11)),
          webgl_shading_language_version |->
              random_choice(<<"1.0", "1.1", "1.2", "1.3", "1.4", "1.5">>,
                            rng_after(x, 12)),
          webgl_vendor |-> random_choice(<<"Google", "Mozilla", "Apple", "Microsoft">>,
                                         rng_after(x, 13)),
          webgl_renderer |-> random_choice(<<"Intel", "NVIDIA", "AMD", "Apple">>,
                                           rng_after(x, 14)) ],
      rng |-> rng_after(x, 15) ]

\* ---------------------------------------- browser_broken.py: session guards
\* The user agent apply_fingerprint_protection sets on the profile.
google_compatible_ua == "Mozilla/5.0 (Macintosh; Intel Mac OS X 10_15_7) AppleWebKit/537.36 (KHTML, like Gecko) Chrome/131.0.0.0 Safari/537.36"

\* The session-scoped attributes of the window, as one record.
Session ==
    [ fingerprint_applied |-> fingerprint_applied,
      current_fingerprint |-> current_fingerprint,
      http_user_agent |-> http_user_agent,
      rng |-> rng,
      google_fixes_applied |-> google_fixes_applied,
      google_js_applied |-> google_js_applied,
      generated |-> generated,
      patch_runs |-> patch_runs ]

\* The window's session attributes become those of record s.
SetSession(s) ==
    /\ fingerprint_applied' = s.fingerprint_applied
    /\ current_fingerprint' = s.current_fingerprint
    /\ http_user_agent' = s.http_user_agent
    /\ rng' = s.rng
    /\ google_fixes_applied' = s.google_fixes_applied
    /\ google_js_applied' = s.google_js_applied
    /\ generated' = s.generated
    /\ patch_runs' = s.patch_runs

\* A plausible slip: the hasattr guard is missing, every call generates anew.
apply_fingerprint_protection_unguarded(s) ==
    LET g == generate_random_fingerprint(s.rng)
    IN  [s EXCEPT !.fingerprint_applied = TRUE,
                  !.current_fingerprint = <<g.fingerprint>>,
                  !.http_user_agent = google_compatible_ua,
                  !.rng = g.rng,
                  !.generated = s.generated + 1]

\* A plausible slip: the flag is set but the profile is not kept.
apply_fingerprint_protection_flag_only(s) ==
    IF s.fingerprint_applied
    THEN s
    ELSE LET g == generate_random_fingerprint(s.rng)
         IN  [s EXCEPT !.rng = g.rng,
                       !.http_user_agent = google_compatible_ua,
                       !.fingerprint_applied = TRUE,
                       !.generated = @ + 1]

\* apply_fingerprint_protection: generate and store once per session
apply_fingerprint_protection(s) ==
    IF s.fingerprint_applied
    THEN s
    ELSE LET g == generate_random_fingerprint(s.rng)
         IN  [s EXCEPT !.fingerprint_applied = TRUE,
                       !.current_fingerprint = <<g.fingerprint>>,
                       !.http_user_agent = google_compatible_ua,
                       !.rng = g.rng,
                       !.generated = s.generated + 1]

\* apply_google_compatibility_fixes: the routine takes effect once per session
apply_google_compatibility_fixes(s) ==
    IF s.google_js_applied
    THEN s
    ELSE [s EXCEPT !.google_js_applied = TRUE, !.patch_runs = s.patch_runs + 1]

\* A plausible slip: the fingerprint is renewed on every finished load.
load_finished_guards_regenerating(s, url) ==
    LET s1 == apply_fingerprint_protection_unguarded(s)
    IN  IF contains(lower(url), "google.com") /\ ~s1.google_fixes_applied
        THEN [apply_google_compatibility_fixes(s1) EXCEPT !.google_fixes_applied = TRUE]
        ELSE s1

\* A plausible slip: google_fixes_applied is never set after the routine ran.
load_finished_guards_unmarked(s, url) ==
    LET s1 == IF ~s.fingerprint_applied THEN apply_fingerprint_protection(s) ELSE s
    IN  IF contains(lower(url), "google.com") /\ ~s1.google_fixes_applied
        THEN apply_google_compatibility_fixes(s1)
        ELSE s1

\* on_load_finished, success branch: the two once-per-session guards
load_finished_guards(s, url) ==
    LET s1 == IF ~s.fingerprint_applied THEN apply_fingerprint_protection(s) ELSE s
    IN  IF contains(lower(url), "google.com") /\ ~s1.google_fixes_applied
        THEN [apply_google_compatibility_fixes(s1) EXCEPT !.google_fixes_applied = TRUE]
        ELSE s1

\* A plausible slip: the start page is recorded as the first history entry.
Init_recording_start_page ==
    /\ history = <<"https://www.bing.com">>
    /\ current_index = 0
    /\ current_url = ""
    /\ address_bar = "https://www.bing.com"
    /\ status_bar = "Ready - Clean browser"
    /\ back_btn = FALSE
    /\ forward_btn = FALSE
    /\ web_view_url = "https://www.bing.com"
    /\ loading = TRUE
    /\ reload_calls = 0
    /\ fingerprint_applied = FALSE
    /\ current_fingerprint = <<>>
    /\ google_fixes_applied = FALSE
    /\ google_js_applied = FALSE
    /\ http_user_agent = "Mozilla/5.0 (Macintosh; Intel Mac OS X 10_15_7) AppleWebKit/537.36 (KHTML, like Gecko) Chrome/120.0.0.0 Safari/537.36"
    /\ rng = 0
    /\ op = "__init__"
    /\ PrivacyConstructed
    /\ prev_index = -1
    /\ prev_len = 0
    /\ prev_loading = FALSE
    /\ nav_run = 0
    /\ rt = NoRoundTrip
    /\ generated = 0
    /\ patch_runs = 0
    /\ fingerprint_differs = FALSE

\* PrivacyBrowser.__init__ and setup_ui of browser.py: the state after construction
Init ==
    /\ history = <<>>
    /\ current_index = -1
    /\ current_url = ""
    /\ address_bar = "https://www.bing.com"
    /\ status_bar = "Ready - Clean browser"
    /\ back_btn = FALSE
    /\ forward_btn = FALSE
    /\ web_view_url = "https://www.bing.com"
    /\ loading = TRUE
    /\ reload_calls = 0
    /\ fingerprint_applied = FALSE
    /\ current_fingerprint = <<>>
    /\ google_fixes_applied = FALSE
    /\ google_js_applied = FALSE
    /\ http_user_agent = "Mozilla/5.0 (Macintosh; Intel Mac OS X 10_15_7) AppleWebKit/537.36 (KHTML, like Gecko) Chrome/120.0.0.0 Safari/537.36"
    /\ rng = 0
    /\ op = "__init__"
    /\ PrivacyConstructed
    /\ prev_index = -1
    /\ prev_len = 0
    /\ prev_loading = FALSE
    /\ nav_run = 0
    /\ rt = NoRoundTrip
    /\ generated = 0
    /\ patch_runs = 0
    /\ fingerprint_differs = FALSE

Next ==
    \/ \E text \in Texts : load_url(text)
    \/ \E url \in EngineUrls \cup {web_view_url} : on_url_changed(url)
    \/ \E success \in BOOLEAN : on_load_finished(success)
    \/ go_back
    \/ go_forward
    \/ refresh_page

Spec == Init /\ [][Next]_vars

\* add_to_history of browser_broken.py: always slice, then append
add_to_history_broken(h, i, url) ==
    LET h2 == Append(SubSeq(h, 1, i + 1), url)
    IN  [history |-> h2, current_index |-> Len(h2) - 1]

\* load_url of browser_broken.py
load_url_broken(text) ==
    LET url == load_url_target(text)
        r == add_to_history_broken(history, current_index, url)
        b == update_navigation_buttons(r.history, r.current_index)
    IN  /\ current_index + 1 < MaxLen
        /\ address_bar' = text
        /\ status_bar' = "Loading " \o url \o "..."
        /\ web_view_url' = url
        /\ loading' = TRUE
        /\ reload_calls' = 0
        /\ history' = r.history
        /\ current_index' = r.current_index
        /\ back_btn' = b.back_btn
        /\ forward_btn' = b.forward_btn
        /\ op' = "load_url"
        /\ UNCHANGED privacy_vars
        /\ UNCHANGED <<current_url, session_vars, obs_hist_vars, obs_session_vars>>

\* on_url_changed of browser_broken.py
on_url_changed_broken(url) ==
    /\ address_bar' = url
    /\ current_url' = url
    /\ status_bar' = "Loaded: " \o url
    /\ op' = "on_url_changed"
    /\ UNCHANGED privacy_vars
    /\ UNCHANGED <<hist_vars, engine_vars, session_vars, obs_hist_vars,
                   obs_session_vars>>

\* go_back of browser_broken.py
go_back_broken ==
    /\ IF current_index > 0
       THEN LET b == update_navigation_buttons(history, current_index - 1)
            IN  /\ current_index' = current_index - 1
                /\ web_view_url' = history[current_index' + 1]
                /\ loading' = TRUE
                /\ reload_calls' = 0
                /\ back_btn' = b.back_btn
                /\ forward_btn' = b.forward_btn
       ELSE UNCHANGED <<current_index, web_view_url, loading, reload_calls,
                        back_btn, forward_btn>>
    /\ op' = "go_back"
    /\ UNCHANGED privacy_vars
    /\ UNCHANGED <<history, ui_vars, session_vars, obs_hist_vars, obs_session_vars>>

\* go_forward of browser_broken.py
go_forward_broken ==
    /\ IF current_index < Len(history) - 1
       THEN LET b == update_navigation_buttons(history, current_index + 1)
            IN  /\ current_index' = current_index + 1
                /\ web_view_url' = history[current_index' + 1]
                /\ loading' = TRUE
                /\ reload_calls' = 0
                /\ back_btn' = b.back_btn
                /\ forward_btn' = b.forward_btn
       ELSE UNCHANGED <<current_index, web_view_url, loading, reload_calls,
                        back_btn, forward_btn>>
    /\ op' = "go_forward"
    /\ UNCHANGED privacy_vars
    /\ UNCHANGED <<history, ui_vars, session_vars, obs_hist_vars, obs_session_vars>>

\* refresh_page of browser_broken.py
refresh_page_broken ==
    /\ IF current_url # ""
       THEN loading' = TRUE
       ELSE UNCHANGED loading
    /\ op' = "refresh_page"
    /\ UNCHANGED privacy_vars
    /\ UNCHANGED <<hist_vars, ui_vars, web_view_url, reload_calls, session_vars,
                   obs_hist_vars, obs_session_vars>>

\* on_load_finished of browser_broken.py
on_load_finished_broken(success) ==
    /\ loading
    /\ IF success
       THEN /\ status_bar' = "Page loaded successfully - Privacy protection active"
            /\ loading' = FALSE
            /\ reload_calls' = 0
            /\ SetSession(load_finished_guards(Session, current_url))
       ELSE /\ reload_calls < MaxReloads
            /\ status_bar' = "Failed to load page"
            /\ loading' = TRUE
            /\ reload_calls' = reload_calls + 1
            /\ UNCHANGED <<session_vars, generated, patch_runs>>
    /\ op' = IF success THEN "on_load_finished(True)" ELSE "on_load_finished(False)"
    /\ UNCHANGED privacy_vars
    /\ UNCHANGED <<hist_vars, current_url, address_bar, web_view_url, obs_hist_vars,
                   fingerprint_differs>>

\* A plausible slip: setup_ui does not apply the fingerprint protection.
PrivacyBrowser_init_broken_unapplied(seed) ==
    [ fingerprint_applied |-> FALSE,
      current_fingerprint |-> <<>>,
      http_user_agent |-> "",
      rng |-> seed,
      google_fixes_applied |-> FALSE,
      google_js_applied |-> FALSE,
      generated |-> 0,
      patch_runs |-> 0 ]

\* PrivacyBrowser.__init__ of browser_broken.py: a fresh window has none of the
\* session attributes, and setup_ui applies the fingerprint protection at once.
\* The generator of module random starts from the seed the process drew.
PrivacyBrowser_init_broken(seed) ==
    apply_fingerprint_protection(
        [ fingerprint_applied |-> FALSE,
          current_fingerprint |-> <<>>,
          http_user_agent |-> "",
          rng |-> seed,
          google_fixes_applied |-> FALSE,
          google_js_applied |-> FALSE,
          generated |-> 0,
          patch_runs |-> 0 ])

\* The window's state other than the session attributes, after construction.
WindowConstructed_broken ==
    /\ history = <<>>
    /\ current_index = -1
    /\ current_url = ""
    /\ address_bar = "https://duckduckgo.com"
    /\ status_bar = "Ready - Enter a URL and press Go or Enter"
    /\ back_btn = FALSE
    /\ forward_btn = FALSE
    /\ web_view_url = "https://duckduckgo.com"
    /\ loading = TRUE
    /\ reload_calls = 0

\* main of browser_broken.py run again: the process was closed and restarted,
\* nothing of the old session is persisted, a new PrivacyBrowser is constructed.
main_broken ==
    \E seed \in 0..(RngMod - 1) :
        LET s == PrivacyBrowser_init_broken(seed)
        IN  /\ SetSession(s)
            /\ fingerprint_differs' = (s.current_fingerprint # current_fingerprint)
            /\ history' = <<>>
            /\ current_index' = -1
            /\ current_url' = ""
            /\ address_bar' = "https://duckduckgo.com"
            /\ status_bar' = "Ready - Enter a URL and press Go or Enter"
            /\ back_btn' = FALSE
            /\ forward_btn' = FALSE
            /\ web_view_url' = "https://duckduckgo.com"
            /\ loading' = TRUE
            /\ reload_calls' = 0
            /\ op' = "main"
            /\ UNCHANGED privacy_vars
            /\ UNCHANGED obs_hist_vars

\* The state after main of browser_broken.py has constructed the window.
InitBroken ==
    /\ WindowConstructed_broken
    /\ \E seed \in 0..(RngMod - 1) :
          LET s == PrivacyBrowser_init_broken(seed)
          IN  /\ fingerprint_applied = s.fingerprint_applied
              /\ current_fingerprint = s.current_fingerprint
              /\ http_user_agent = s.http_user_agent
              /\ rng = s.rng
              /\ google_fixes_applied = s.google_fixes_applied
              /\ google_js_applied = s.google_js_applied
              /\ generated = s.generated
              /\ patch_runs = s.patch_runs
    /\ fingerprint_differs = FALSE
    /\ op = "main"
    /\ PrivacyConstructed
    /\ prev_index = -1
    /\ prev_len = 0
    /\ prev_loading = FALSE
    /\ nav_run = 0
    /\ rt = NoRoundTrip

NextBroken ==
    \/ \E text \in Texts_broken : load_url_broken(text)
    \/ \E url \in EngineUrls \cup {web_view_url} : on_url_changed_broken(url)
    \/ \E success \in BOOLEAN : on_load_finished_broken(success)
    \/ go_back_broken
    \/ go_forward_broken
    \/ refresh_page_broken
    \/ main_broken

SpecBroken == InitBroken /\ [][NextBroken]_vars

\* ------------------------------------------- the privacy helpers' inputs
\* URLs of requests the engine hands to the interceptor
RequestUrls ==
    { "https://www.google.com/search",
      "https://ad.doubleclick.net/x",
      "https://adnxs.com/px",
      "https://static.fbcdn.net/a.js",
      "https://notfbcdn.net/",
      "https://notgoogle.com/",
      "https://evil.org/?q=google.com",
      "https://example.org/",
      "not a url",
      "" }

\* cookie.domain of the cookies offered
CookieDomains == { "ads.example.com", "example.com", "example.com.evil.net", "site.com" }

\* domains of the requests the cookies arrive on
RequestDomains == { "site.com", "example.com", "" }

\* the documented options of cookie_policy
CookiePolicies == { "block_all", "block_third_party", "allow_all" }

\* ------------------------------- browser_broken.py: PrivacyRequestInterceptor
\* A plausible slip: the ad network is left out of the essential domains.
google_essential_domains_without_doubleclick ==
    << "google.com", "googleapis.com", "gstatic.com", "googleusercontent.com",
       "google-analytics.com", "googletagmanager.com" >>

google_essential_domains ==
    << "google.com", "googleapis.com", "gstatic.com", "googleusercontent.com",
       "google-analytics.com", "googletagmanager.com", "doubleclick.net" >>

\* any(domain in url for domain in google_essential_domains)
is_google_essential(url) ==
    \E k \in DOMAIN google_essential_domains :
        contains(url, google_essential_domains[k])

\* A plausible slip: the interceptor forgets the Cache-Control header.
interceptRequest_headers_without_cache_control ==
    ( "Accept" :> "text/html,application/xhtml+xml,application/xml;q=0.9,image/avif,image/webp,image/apng,*/*;q=0.8,application/signed-exchange;v=b3;q=0.7"
   @@ "Accept-Language" :> "en-US,en;q=0.9"
   @@ "Accept-Encoding" :> "gzip, deflate, br"
   @@ "DNT" :> "1"
   @@ "Connection" :> "keep-alive"
   @@ "Upgrade-Insecure-Requests" :> "1"
   @@ "Sec-Fetch-Dest" :> "document"
   @@ "Sec-Fetch-Mode" :> "navigate"
   @@ "Sec-Fetch-Site" :> "none"
   @@ "Sec-Fetch-User" :> "?1" )

\* The headers interceptRequest sets on every request, whatever its URL.
interceptRequest_headers ==
    ( "Accept" :> "text/html,application/xhtml+xml,application/xml;q=0.9,image/avif,image/webp,image/apng,*/*;q=0.8,application/signed-exchange;v=b3;q=0.7"
   @@ "Accept-Language" :> "en-US,en;q=0.9"
   @@ "Accept-Encoding" :> "gzip, deflate, br"
   @@ "DNT" :> "1"
   @@ "Connection" :> "keep-alive"
   @@ "Upgrade-Insecure-Requests" :> "1"
   @@ "Sec-Fetch-Dest" :> "document"
   @@ "Sec-Fetch-Mode" :> "navigate"
   @@ "Sec-Fetch-Site" :> "none"
   @@ "Sec-Fetch-User" :> "?1"
   @@ "Cache-Control" :> "max-age=0" )

\* A plausible slip: a request whose URL has no scheme is blocked.
interceptRequest_blocks_unparseable(url) ==
    /\ request' = [url |-> url,
                   headers |-> interceptRequest_headers,
                   google_essential |-> is_google_essential(url),
                   blocked |-> ~contains(url, "://"),
                   seen |-> TRUE]
    /\ prev_request' = request
    /\ op' = "interceptRequest"
    /\ UNCHANGED <<hist_vars, ui_vars, engine_vars, session_vars, obs_hist_vars,
                   obs_session_vars, cookie_policy, headers, cookie_call>>

\* interceptRequest: the engine is about to send the request for `url`. The
\* headers are set, the essential-domain test is made, and on either outcome
\* the method returns without info.block(): the request proceeds.
interceptRequest(url) ==
    /\ request' = [url |-> url,
                   headers |-> interceptRequest_headers,
                   google_essential |-> is_google_essential(url),
                   blocked |-> FALSE,
                   seen |-> TRUE]
    /\ prev_request' = request
    /\ op' = "interceptRequest"
    /\ UNCHANGED <<hist_vars, ui_vars, engine_vars, session_vars, obs_hist_vars,
                   obs_session_vars, cookie_policy, headers, cookie_call>>

\* ------------------------------------- enhanced_protector.py: the lists
trackers ==
    { "facebook.com", "facebook.net", "fbcdn.net",
      "instagram.com", "instagram.net",
      "twitter.com", "twimg.com", "t.co",
      "linkedin.com", "licdn.com",
      "tiktok.com", "tiktokcdn.com",
      "google-analytics.com", "googletagmanager.com",
      "googleadservices.com", "doubleclick.net",
      "googlesyndication.com", "google.com/ads",
      "amazon-adsystem.com", "amazon.com/ads",
      "bing.com/ads", "yahoo.com/ads",
      "hotjar.com", "mixpanel.com", "amplitude.com",
      "segment.com", "optimizely.com", "crazyegg.com",
      "adnxs.com", "adsystem.com", "adtech.com",
      "criteo.com", "taboola.com", "outbrain.com",
      "adroll.com", "adform.com", "pubmatic.com" }

ad_domains ==
    { "googlesyndication.com", "doubleclick.net", "amazon-adsystem.com",
      "adnxs.com", "adsystem.com", "adtech.com" }

\* The dict get_privacy_headers returns.
get_privacy_headers_dict ==
    ( "User-Agent" :> "Mozilla/5.0 (Macintosh; Intel Mac OS X 10_15_7) AppleWebKit/537.36 (KHTML, like Gecko) Chrome/120.0.0.0 Safari/537.36"
   @@ "Accept" :> "text/html,application/xhtml+xml,application/xml;q=0.9,image/webp,*/*;q=0.8"
   @@ "Accept-Language" :> "en-US,en;q=0.5"
   @@ "Accept-Encoding" :> "gzip, deflate"
   @@ "DNT" :> "1"
   @@ "Connection" :> "keep-alive"
   @@ "Upgrade-Insecure-Requests" :> "1"
   @@ "Sec-Fetch-Dest" :> "document"
   @@ "Sec-Fetch-Mode" :> "navigate"
   @@ "Sec-Fetch-Site" :> "none" )

\* get_privacy_headers: EnhancedPrivacyProtector's header builder is called
get_privacy_headers ==
    /\ headers' = get_privacy_headers_dict
    /\ op' = "get_privacy_headers"
    /\ UNCHANGED <<hist_vars, ui_vars, engine_vars, session_vars, obs_hist_vars,
                   obs_session_vars, cookie_policy, request, prev_request,
                   cookie_call>>

\* ------------------------- fingerprint_protector.py: the header builder
\* The dict get_headers_with_random_fingerprints returns for a profile.
get_headers_with_random_fingerprints_dict(fingerprint) ==
    ( "User-Agent" :> fingerprint.user_agent
   @@ "Accept" :> "text/html, application/xhtml+xml, application/xml;q=0.9, */*;q=0.8"
   @@ "Accept-Language" :> fingerprint.language
   @@ "Accept-Encoding" :> "gzip, deflate"
   @@ "DNT" :> "1"
   @@ "Connection" :> "Keep-alive"
   @@ "Upgrade-Insecure-Requests" :> "1"
   @@ "Sec-CH-UA" :> "\"Not_A Brand\";v=\"8\", \"Chromium\";v=\"120\""
   @@ "Sec-CH-UA-Mobile" :> "?0"
   @@ "Sec-CH-UA-Platform" :> ("\"" \o fingerprint.platform \o "\"") )

\* get_headers_with_random_fingerprints: FingerPrintProtector's header builder
\* is called; it draws a new profile from the generator on every call.
get_headers_with_random_fingerprints ==
    LET g == generate_random_fingerprint(rng)
    IN  /\ headers' = get_headers_with_random_fingerprints_dict(g.fingerprint)
        /\ rng' = g.rng
        /\ op' = "get_headers_with_random_fingerprints"
        /\ UNCHANGED <<hist_vars, ui_vars, engine_vars, fingerprint_applied,
                       current_fingerprint, google_fixes_applied, google_js_applied,
                       http_user_agent, obs_hist_vars, obs_session_vars,
                       cookie_policy, request, prev_request, cookie_call>>

\* --------------------------------------------------- cookie_manager.py
\* A plausible slip: the operands of `in` are exchanged.
should_accept_cookie_reversed(cookie_domain, domain) ==
    /\ cookie_call' =
          [cookie_domain |-> cookie_domain,
           domain |-> domain,
           accepted |-> IF cookie_policy = "block_all" THEN FALSE
                        ELSE IF cookie_policy = "block_third_party"
                             THEN contains(domain, cookie_domain)
                             ELSE TRUE,
           made |-> TRUE]
    /\ op' = "should_accept_cookie"
    /\ UNCHANGED <<hist_vars, ui_vars, engine_vars, session_vars, obs_hist_vars,
                   obs_session_vars, cookie_policy, request, prev_request, headers>>

\* should_accept_cookie: a cookie whose domain is `cookie_domain` is offered on
\* a request to `domain`
should_accept_cookie(cookie_domain, domain) ==
    /\ cookie_call' =
          [cookie_domain |-> cookie_domain,
           domain |-> domain,
           accepted |-> IF cookie_policy = "block_all" THEN FALSE
                        ELSE IF cookie_policy = "block_third_party"
                             THEN contains(cookie_domain, domain)
                             ELSE TRUE,
           made |-> TRUE]
    /\ op' = "should_accept_cookie"
    /\ UNCHANGED <<hist_vars, ui_vars, engine_vars, session_vars, obs_hist_vars,
                   obs_session_vars, cookie_policy, request, prev_request, headers>>

\* ------------------------------------ the privacy helpers of one session
\* The session attributes and the observations after main of browser_broken.py
\* has constructed the window and its helpers.
SessionConstructed_broken ==
    /\ WindowConstructed_broken
    /\ \E seed \in 0..(RngMod - 1) :
          LET s == PrivacyBrowser_init_broken(seed)
          IN  /\ fingerprint_applied = s.fingerprint_applied
              /\ current_fingerprint = s.current_fingerprint
              /\ http_user_agent = s.http_user_agent
              /\ rng = s.rng
              /\ google_fixes_applied = s.google_fixes_applied
              /\ google_js_applied = s.google_js_applied
              /\ generated = s.generated
              /\ patch_runs = s.patch_runs
    /\ fingerprint_differs = FALSE
    /\ op = "main"
    /\ prev_index = -1
    /\ prev_len = 0
    /\ prev_loading = FALSE
    /\ nav_run = 0
    /\ rt = NoRoundTrip

\* The request interceptor and the header builders of a constructed session.
InitPrivacy ==
    /\ SessionConstructed_broken
    /\ PrivacyConstructed

NextPrivacy ==
    \/ \E url \in RequestUrls : interceptRequest(url)
    \/ get_privacy_headers
    \/ get_headers_with_random_fingerprints

SpecPrivacy == InitPrivacy /\ [][NextPrivacy]_vars

\* The cookie manager of a constructed session, its policy set to one of the
\* documented options.
InitCookies ==
    /\ SessionConstructed_broken
    /\ cookie_policy \in CookiePolicies
    /\ request = NoRequest
    /\ prev_request = NoRequest
    /\ headers = NoHeaders
    /\ cookie_call = NoCookieCall

NextCookies ==
    \E cookie_domain \in CookieDomains, domain \in RequestDomains :
        should_accept_cookie(cookie_domain, domain)

SpecCookies == InitCookies /\ [][NextCookies]_vars

\* ================================================================== claims

\* The entry current() returns: the one at current_index.
current == history[current_index + 1]

\* C1: in every state reachable by load_url, go_back and go_forward from the
\* empty history, -1 <= current_index < len(history).
C1_IndexWithinHistory ==
    /\ -1 <= current_index
    /\ current_index < Len(history)

\* C1 witness: go_back has moved the index to the lower end of a history of
\* several entries.
C1_Witness ==
    /\ op = "go_back"
    /\ prev_index = 1
    /\ current_index = 0
    /\ Len(history) >= 2

\* C2: every load_url step from history h at index i leaves h[0..i] followed
\* by the URL it loads, at index len-1 = i+1: the entries after i are gone,
\* those up to i are unchanged; add_to_history of browser_broken.py gives the
\* same result from the same state.
C2_NavigateTruncatesAndAppends ==
    [][ op' = "load_url" =>
          /\ history' = Append(SubSeq(history, 1, current_index + 1), web_view_url')
          /\ current_index' = Len(history') - 1
          /\ current_index' = current_index + 1
          /\ \A k \in 1..(current_index + 1) : history'[k] = history[k]
          /\ add_to_history_broken(history, current_index, web_view_url')
               = [history |-> history', current_index |-> current_index']
      ]_vars

\* C2 witness: the spec's example, a navigation from index 0 of a history of
\* three entries that leaves two entries at index 1.
C2_Witness ==
    /\ op = "load_url"
    /\ prev_len = 3
    /\ prev_index = 0
    /\ Len(history) = 2
    /\ current_index = 1

\* An address-bar text that is empty or malformed: nothing but whitespace,
\* nothing after the scheme, or whitespace inside.
InvalidInput(text) ==
    LET url == strip(text)
    IN  \/ url = ""
        \/ url \in {"http://", "https://"}
        \/ contains(url, " ")

\* C3: an empty or malformed text passed to load_url is rejected before it
\* reaches the history: right after the call the history has its old length
\* and the index its old value.
C3_InvalidInputRejected ==
    (op = "load_url" /\ InvalidInput(address_bar)) =>
        (Len(history) = prev_len /\ current_index = prev_index)

\* C4: one failing page causes at most one automatic reload(): after the
\* first retry a further failure is only reported.
C4_SingleReloadPerFailure == reload_calls <= 1

\* C5: a second apply_fingerprint_protection() in a session generates
\* nothing and changes no state: applied to the session as it stands, it
\* returns the session unchanged, and one profile was generated so far.
C5_SecondEnsureIsNoOp ==
    /\ apply_fingerprint_protection(Session) = Session
    /\ generated = 1
    /\ Len(current_fingerprint) = 1

\* C5 witness: a load has finished successfully, so the guarded call of
\* on_load_finished has run after the constructor's, and still one profile
\* was generated.
C5_Witness ==
    /\ op = "on_load_finished(True)"
    /\ fingerprint_applied
    /\ generated = 1

\* C6: once fingerprint_applied holds, no step other than the start of a new
\* session unsets it, changes the stored profile or generates another one.
C6_FingerprintStableInSession ==
    [][ (op' # "main" /\ fingerprint_applied) =>
          /\ fingerprint_applied'
          /\ current_fingerprint' = current_fingerprint
          /\ generated' = generated
      ]_vars

\* C6 witness: after navigations and a move back, a load has finished
\* successfully with the fingerprint still applied.
C6_Witness ==
    /\ op = "on_load_finished(True)"
    /\ Len(history) >= 2
    /\ current_index < Len(history) - 1
    /\ fingerprint_applied
    /\ Len(current_fingerprint) = 1

\* C7: the compatibility routine takes effect at most once per session, it
\* has taken effect exactly once as soon as a load of a google.com page
\* finished successfully, the flags that record it are set exactly then, and
\* calling the routine again changes nothing.
C7_CompatPatchOncePerSession ==
    /\ patch_runs <= 1
    /\ google_js_applied => apply_google_compatibility_fixes(Session) = Session
    /\ google_fixes_applied <=> (patch_runs = 1)
    /\ google_js_applied <=> (patch_runs = 1)
    /\ (op = "on_load_finished(True)" /\ contains(lower(current_url), "google.com"))
          => patch_runs = 1

\* C7 witness: after a navigation, a load of a google.com page has finished
\* successfully and the routine has run once.
C7_Witness ==
    /\ op = "on_load_finished(True)"
    /\ contains(lower(current_url), "google.com")
    /\ Len(history) >= 1
    /\ google_fixes_applied
    /\ patch_runs = 1

\* C8 as stated: when a new session has begun, every session flag is false
\* and no fingerprint is stored.
C8_BeginSessionClearsAll ==
    op = "main" =>
        /\ ~fingerprint_applied
        /\ ~google_fixes_applied
        /\ ~google_js_applied
        /\ current_fingerprint = <<>>

\* C8 amended: when a new session has begun (a new PrivacyBrowser was
\* constructed), the compatibility flags are false, and the constructor has
\* itself generated and stored one fresh profile from the new generator state
\* and set fingerprint_applied; a following apply_fingerprint_protection()
\* generates nothing.
C8_NewSessionHasFreshFingerprint ==
    op = "main" =>
        /\ fingerprint_applied
        /\ generated = 1
        /\ \E seed \in 0..(RngMod - 1) :
              current_fingerprint = <<generate_random_fingerprint(seed).fingerprint>>
        /\ ~google_fixes_applied
        /\ ~google_js_applied
        /\ patch_runs = 0
        /\ apply_fingerprint_protection(Session).generated = 1

\* C8 witness: a new session has begun and its profile differs from the
\* previous session's.
C8_Witness ==
    /\ op = "main"
    /\ fingerprint_differs
    /\ fingerprint_applied

\* C9: after load_url has run n >= 1 times from the empty history and no
\* go_back or go_forward, back is possible iff n > 1, forward is not
\* possible, and the current entry is the URL of the last load_url.
C9_AfterNavigationsOnly ==
    nav_run >= 1 =>
        /\ back_btn <=> (nav_run > 1)
        /\ (current_index > 0) <=> (nav_run > 1)
        /\ ~forward_btn
        /\ ~(current_index < Len(history) - 1)
        /\ Len(history) = nav_run
        /\ current = web_view_url

\* C9 witness: three navigations in a row.
C9_Witness ==
    /\ nav_run = 3
    /\ op = "load_url"
    /\ back_btn

\* C10: go_back() then go_forward() from index i with 0 < i < len-1 leaves
\* the index, the sequence and the current entry as they were, and the
\* engine is asked for that entry.
C10_BackForwardRoundTrip ==
    rt.phase = "done" =>
        /\ current_index = rt.current_index
        /\ history = rt.history
        /\ current = rt.history[rt.current_index + 1]
        /\ web_view_url = current

\* C10 witness: a round trip from the middle of a history has completed.
C10_Witness ==
    /\ rt.phase = "done"
    /\ op = "go_forward"
    /\ 0 < current_index
    /\ current_index < Len(history) - 1

\* C11: at a boundary the history handlers do nothing: go_back() with
\* current_index <= 0 (the empty history, index -1, included) and go_forward()
\* with current_index >= length - 1 leave the history and the index as they
\* were and hand nothing to the engine (no setUrl, no new load, no reload);
\* the handlers are total, so the step is taken without an error.
C11_BoundaryIsNoOp ==
    [][ /\ (op' = "go_back" /\ current_index <= 0) =>
              UNCHANGED <<history, current_index, web_view_url, loading, reload_calls>>
        /\ (op' = "go_forward" /\ current_index >= Len(history) - 1) =>
              UNCHANGED <<history, current_index, web_view_url, loading, reload_calls>>
      ]_vars

\* go_back() has just run on the empty history of a new window whose first
\* load has finished, and nothing was asked of the engine
C11_Witness ==
    /\ op = "go_back"
    /\ prev_index = -1
    /\ prev_len = 0
    /\ current_index = -1
    /\ history = << >>
    /\ ~loading

\* C12: away from the boundary go_back() lowers current_index by exactly one
\* and go_forward() raises it by exactly one; neither changes the contents or
\* the length of the history, and the URL handed to the engine (setUrl) is
\* exactly the entry at the new index.
C12_BackForwardMoveByOne ==
    [][ /\ (op' = "go_back" /\ current_index > 0) =>
              /\ current_index' = current_index - 1
              /\ history' = history
              /\ web_view_url' = history[current_index' + 1]
              /\ loading'
        /\ (op' = "go_forward" /\ current_index < Len(history) - 1) =>
              /\ current_index' = current_index + 1
              /\ history' = history
              /\ web_view_url' = history[current_index' + 1]
              /\ loading'
      ]_vars

\* go_forward() has just moved from the first to the second of three entries
\* and the engine was given that second entry
C12_Witness ==
    /\ op = "go_forward"
    /\ prev_index = 0
    /\ current_index = 1
    /\ Len(history) = 3
    /\ prev_len = 3
    /\ web_view_url = history[2]
    /\ loading

\* C13: a navigation issued while an earlier load is still outstanding is
\* accepted and supersedes it: load_url is enabled in every state, whatever
\* the engine is doing (up to the history bound of the model), and the current
\* entry is the URL last handed to the engine, however the engine's pending
\* urlChanged and loadFinished events interleave afterwards, so after a run of
\* navigations it is the URL of the latest one.
C13_NavigateSupersedesOutstandingLoad ==
    /\ (current_index + 1 < MaxLen) => ENABLED (\E text \in Texts : load_url(text))
    /\ current_index >= 0 => current = web_view_url
    /\ (op = "load_url" /\ prev_loading) =>
          /\ loading
          /\ reload_calls = 0
          /\ current_index = prev_index + 1
          /\ current = load_url_target(address_bar)

\* two navigations in a row, the second issued while a load was outstanding;
\* then the engine reported another URL and the end of a load, and the current
\* entry is still what the second navigation asked for
C13_Witness ==
    /\ nav_run = 2
    /\ prev_loading
    /\ op = "on_load_finished(True)"
    /\ current_url # ""
    /\ current_url # current
    /\ current = web_view_url
    /\ current = history[2]

\* The position of the first occurrence of `sub` in `s`, 0 when there is none.
index_of(s, sub) ==
    LET ks == { k \in 1..(Len(s) - Len(sub) + 1) : SubSeq(s, k, k + Len(sub) - 1) = sub }
    IN  IF ks = {} THEN 0 ELSE CHOOSE k \in ks : \A j \in ks : k <= j

\* `s` ends with `suffix`
endswith(s, suffix) ==
    /\ Len(s) >= Len(suffix)
    /\ SubSeq(s, Len(s) - Len(suffix) + 1, Len(s)) = suffix

\* The domain of a request URL: what stands between "://" and the first of
\* "/", "?", "#", ":" after it; "" for a text that has no "://".
url_domain(url) ==
    LET k == index_of(url, "://")
        rest == SubSeq(url, k + 3, Len(url))
        ends == { j \in 1..Len(rest) : SubSeq(rest, j, j) \in {"/", "?", "#", ":"} }
    IN  IF k = 0 THEN ""
        ELSE IF ends = {} THEN rest
        ELSE SubSeq(rest, 1, (CHOOSE j \in ends : \A i \in ends : j <= i) - 1)

\* A request domain matches a list entry: it is the entry or a subdomain of it.
domain_matches(domain, entry) ==
    \/ domain = entry
    \/ endswith(domain, "." \o entry)

\* The domain matches an entry of the compatibility allow-list.
in_allow_domains(domain) ==
    \E k \in DOMAIN google_essential_domains :
        domain_matches(domain, google_essential_domains[k])

\* The domain matches an entry of the ad list, of the tracker list.
in_ad_domains(domain) == \E entry \in ad_domains : domain_matches(domain, entry)
in_tracker_domains(domain) == \E entry \in trackers : domain_matches(domain, entry)

\* C14: the allow-list always wins: a request whose domain matches an entry of
\* the compatibility allow-list is let through on the allow-list path and is
\* never blocked, also when the same domain is on the ad list and on the
\* tracker list, as doubleclick.net is.
C14_AllowListWins ==
    /\ "doubleclick.net" \in ad_domains \cap trackers
    /\ request.seen =>
          /\ in_allow_domains(url_domain(request.url)) =>
                (request.google_essential /\ ~request.blocked)
          /\ domain_matches(url_domain(request.url), "doubleclick.net") =>
                (request.google_essential /\ ~request.blocked)

\* the interceptor has let a request to a subdomain of doubleclick.net through,
\* a domain that the ad list and the tracker list name as well
C14_Witness ==
    /\ op = "interceptRequest"
    /\ request.url = "https://ad.doubleclick.net/x"
    /\ url_domain(request.url) = "ad.doubleclick.net"
    /\ in_ad_domains(url_domain(request.url))
    /\ in_tracker_domains(url_domain(request.url))
    /\ request.google_essential
    /\ ~request.blocked

\* C15: domain matching is exact-or-subdomain only: a request takes the
\* allow-list path exactly when its domain equals an entry or ends with "."
\* followed by the entry; an entry that merely occurs elsewhere in the URL (in
\* the path, in the query, or inside another domain such as notgoogle.com)
\* does not match.
C15_ExactOrSubdomainOnly ==
    request.seen =>
        (request.google_essential <=> in_allow_domains(url_domain(request.url)))

\* The verdict the interceptor reaches on a request: it has no Ad and no
\* Tracker outcome; a request it does not block proceeds.
verdict(r) == IF r.blocked THEN "Blocked" ELSE "Allowed"

\* The verdict of the documented order: allow-list, then ad list, then
\* tracker list, first match wins, Allowed when nothing matches.
first_match(domain) ==
    IF in_allow_domains(domain) THEN "Allowed"
    ELSE IF in_ad_domains(domain) THEN "Ad"
    ELSE IF in_tracker_domains(domain) THEN "Tracker"
    ELSE "Allowed"

\* C16: the lists are evaluated in the fixed order allow, ad, tracker and the
\* first match wins: a request whose domain is not allow-listed and matches
\* both the ad list and the tracker list is Ad, one that matches only the
\* tracker list is Tracker, and one that matches no list is Allowed.
C16_FirstMatchWins ==
    request.seen => verdict(request) = first_match(url_domain(request.url))

occurs_within(c, d) ==
    \E i \in 1..(Len(c) + 1) : \E j \in 0..Len(c) : SubSeq(c, i, j) = d

\* C18: should_accept_cookie follows the policy table: block_all rejects every
\* cookie, allow_all accepts every cookie, and block_third_party accepts a
\* cookie exactly when the request domain occurs within the cookie's domain:
\* a cookie of ads.example.com is rejected on a request to site.com and
\* accepted on a request to example.com.
C18_CookiePolicyTable ==
    cookie_call.made =>
        /\ cookie_policy = "block_all" => ~cookie_call.accepted
        /\ cookie_policy = "allow_all" => cookie_call.accepted
        /\ cookie_policy = "block_third_party" =>
              /\ cookie_call.accepted <=>
                    occurs_within(cookie_call.cookie_domain, cookie_call.domain)
              /\ (cookie_call.cookie_domain = "ads.example.com"
                    /\ cookie_call.domain = "site.com") => ~cookie_call.accepted
              /\ (cookie_call.cookie_domain = "ads.example.com"
                    /\ cookie_call.domain = "example.com") => cookie_call.accepted

\* under block_third_party a cookie of ads.example.com has been accepted on a
\* request to example.com
C18_Witness ==
    /\ op = "should_accept_cookie"
    /\ cookie_policy = "block_third_party"
    /\ cookie_call.made
    /\ cookie_call.cookie_domain = "ads.example.com"
    /\ cookie_call.domain = "example.com"
    /\ cookie_call.accepted

\* The User-Agent a request goes out with: the header the interceptor set, or,
\* as it sets none, the profile's HTTP user agent.
user_agent_sent(r) ==
    IF "User-Agent" \in DOMAIN r.headers THEN r.headers["User-Agent"]
    ELSE http_user_agent

\* C19: on every request of a session the User-Agent and the Accept-Language
\* that go out are exactly the user_agent and the language of the session's
\* active fingerprint (so that two requests of one session present the same
\* two values).
C19_HeadersFromActiveFingerprint ==
    request.seen =>
        /\ current_fingerprint # << >>
        /\ user_agent_sent(request) = current_fingerprint[1].user_agent
        /\ "Accept-Language" \in DOMAIN request.headers
        /\ request.headers["Accept-Language"] = current_fingerprint[1].language

\* The part of the baseline every header builder of the repository sets.
common_baseline(h) ==
    /\ {"DNT", "Upgrade-Insecure-Requests", "Accept-Encoding"} \subseteq DOMAIN h
    /\ h["DNT"] = "1"
    /\ h["Upgrade-Insecure-Requests"] = "1"

\* The fixed privacy baseline: DNT = 1, Upgrade-Insecure-Requests = 1,
\* Accept-Encoding, the Sec-Fetch-* headers and Cache-Control.
baseline(h) ==
    /\ common_baseline(h)
    /\ {"Sec-Fetch-Dest", "Sec-Fetch-Mode", "Sec-Fetch-Site", "Cache-Control"}
          \subseteq DOMAIN h

\* C20, as stated: every header mapping that is produced, by the interceptor
\* for a request or by either header builder, contains the whole baseline.
C20_EveryMappingHasBaseline ==
    /\ request.seen => baseline(request.headers)
    /\ DOMAIN headers # {} => baseline(headers)

\* C20, amended: the headers the interceptor sets on a request contain the
\* whole baseline, for every URL and every session; the dicts the two
\* stand-alone builders return contain DNT = 1, Upgrade-Insecure-Requests = 1
\* and Accept-Encoding, and neither contains Cache-Control.
C20_InterceptorHasBaseline ==
    /\ request.seen => baseline(request.headers)
    /\ DOMAIN headers # {} =>
          /\ common_baseline(headers)
          /\ "Cache-Control" \notin DOMAIN headers
          /\ op = "get_headers_with_random_fingerprints" =>
                "Sec-Fetch-Dest" \notin DOMAIN headers

\* a builder has returned a dict without Cache-Control, and the interceptor has
\* then set the whole baseline on a request
C20_Witness ==
    /\ op = "interceptRequest"
    /\ request.seen
    /\ baseline(request.headers)
    /\ request.headers["Cache-Control"] = "max-age=0"
    /\ DOMAIN headers # {}
    /\ ~baseline(headers)

\* The full Accept value the interceptor sends.
full_accept == "text/html,application/xhtml+xml,application/xml;q=0.9,image/avif,image/webp,image/apng,*/*;q=0.8,application/signed-exchange;v=b3;q=0.7"

\* All of the "looks human" headers are present in h; none of them is.
looks_human(h) ==
    /\ {"Sec-CH-UA", "Accept", "Connection"} \subseteq DOMAIN h
    /\ h["Accept"] = full_accept
    /\ h["Connection"] = "keep-alive"
no_looks_human(h) == {"Sec-CH-UA", "Accept", "Connection"} \cap DOMAIN h = {}

\* C21: the "looks human" headers (Sec-CH-UA, the full Accept, Connection:
\* keep-alive) are on a request when, and only when, the request took the
\* compatibility allow-list path; any other request carries none of them.
C21_LooksHumanIffAllowListed ==
    request.seen =>
        /\ request.google_essential => looks_human(request.headers)
        /\ ~request.google_essential => no_looks_human(request.headers)

\* The names of the baseline headers and of the two fingerprint headers.
baseline_names ==
    {"DNT", "Upgrade-Insecure-Requests", "Accept-Encoding", "Sec-Fetch-Dest",
     "Sec-Fetch-Mode", "Sec-Fetch-Site", "Sec-Fetch-User", "Cache-Control"}
fingerprint_names == {"User-Agent", "Accept-Language"}

\* C22: the headers are built for every string without raising, the empty
\* string and a string without a scheme included, and for a text that cannot
\* be parsed as a URL the result is the baseline only: no header beyond the
\* baseline (and the fingerprint's own two) is on the request.
C22_UnparseableGetsBaselineOnly ==
    /\ \A url \in RequestUrls : ENABLED interceptRequest(url)
    /\ (request.seen /\ url_domain(request.url) = "") =>
          /\ baseline(request.headers)
          /\ DOMAIN request.headers \subseteq baseline_names \cup fingerprint_names

\* An absolute URL with a scheme and something after it.
scheme_qualified(url) ==
    \/ startswith(url, "http://") /\ Len(url) > Len("http://")
    \/ startswith(url, "https://") /\ Len(url) > Len("https://")

\* C23: every entry of the history, in every reachable state, is a non-empty,
\* scheme-qualified absolute URL: it starts with http:// or https:// and
\* something follows the scheme, whatever text was typed into the address bar.
C23_HistoryEntriesSchemeQualified ==
    \A k \in 1..Len(history) : scheme_qualified(history[k])

C25_EngineEventsLeaveHistory ==
    [][ op' \in {"on_url_changed", "on_load_finished(True)",
                 "on_load_finished(False)", "refresh_page"} =>
          UNCHANGED <<history, current_index>>
      ]_vars

\* the engine has reported a page that was never navigated to, and the history
\* still holds only the one entry that was
C25_Witness ==
    /\ op = "on_url_changed"
    /\ current_url = "https://www.Google.com/search"
    /\ Len(history) = 1
    /\ current_index = 0
    /\ history[1] # current_url

\* C26: in every reachable state the back button is enabled iff
\* current_index > 0 and the forward button is enabled iff
\* current_index < len(history) - 1; both are disabled in the new window; the
\* enablement never lags behind the history, whichever handler ran last.
C26_ButtonsFollowHistory ==
    /\ back_btn <=> (current_index > 0)
    /\ forward_btn <=> (current_index < Len(history) - 1)
    /\ op = "__init__" => (~back_btn /\ ~forward_btn)

\* go_back() has just moved to the middle of three entries: both buttons are
\* enabled
C26_Witness ==
    /\ op = "go_back"
    /\ prev_index = 2
    /\ current_index = 1
    /\ Len(history) = 3
    /\ back_btn
    /\ forward_btn

\* C27: the two add_to_history implementations agree: in every reachable
\* state and for every URL, truncating only when current_index <
\* len(history) - 1 (browser.py) and always slicing history[:current_index + 1]
\* (browser_broken.py) give the same history and the same index, so the two
\* history machines stay in lockstep under load_url, go_back and go_forward.
C27_AddToHistoryImplementationsAgree ==
    \A text \in Texts \cup EngineUrls :
        add_to_history(history, current_index, load_url_target(text))
            = add_to_history_broken(history, current_index, load_url_target(text))

\* a navigation has just run from the first of three entries, the case in
\* which both implementations have forward entries to drop
C27_Witness ==
    /\ op = "load_url"
    /\ prev_len = 3
    /\ prev_index = 0
    /\ Len(history) = 2
    /\ current_index = 1

\* The page setup_ui hands to the engine at construction.
start_page == "https://www.bing.com"

C29_NoThirdPartyCookie ==
    (cookie_call.made /\ cookie_policy = "block_third_party"
        /\ cookie_call.accepted) =>
            /\ cookie_call.domain # ""
            /\ domain_matches(cookie_call.cookie_domain, cookie_call.domain)

\* C30: in every reachable state of a session fingerprint_applied is set iff
\* a fingerprint profile is stored: no handler sees the flag without a
\* profile, or a profile without the flag.
C30_FlagIffProfileStored ==
    fingerprint_applied <=> (current_fingerprint # << >>)

\* a page has finished loading in a session whose flag is set and whose
\* profile, generated once at construction, is stored
C30_Witness ==
    /\ op = "on_load_finished(True)"
    /\ fingerprint_applied
    /\ Len(current_fingerprint) = 1
    /\ current_fingerprint[1].user_agent = user_agents[2]
    /\ generated = 1

====
